---- MODULE Spec2Model ----
(***************************************************************************)
(* A model of Hello.py: a Streamlit page that fetches a web page, strips   *)
(* its text to letters, digits and CJK ideographs, segments it into words, *)
(* counts the words, and renders the 20 most frequent ones as one of seven *)
(* charts, or lists the page's images.                                     *)
(*                                                                         *)
(* Texts and words are sequences of Unicode code points.  A Python dict is *)
(* a sequence of <<key, value>> pairs in insertion order, which is the     *)
(* order Python iterates it in.                                            *)
(***************************************************************************)
EXTENDS Integers, Sequences, FiniteSets

VARIABLES
    url,              \* st.text_input: the URL typed in ("" when empty)
    selected_option,  \* st.sidebar.selectbox: the mode chosen, or None
    content,          \* soup.get_text() of the page the web serves
    images,           \* the page's <img> tags, in document order
    status,           \* HTTP status of the response get_web_content got
    failed,           \* the collaborator call that raised in the last run
    new_content,      \* content after re.sub
    words,            \* jieba.lcut(new_content)
    counts,           \* the frequency table
    top_words,        \* get_web_content's top-20 word list
    top_counts,       \* get_web_content's top-20 count list
    top_20_counts,    \* get_top_counts(counts, num=20)
    num,              \* the num argument of a get_top_counts call
    top_n,            \* get_top_counts(counts, num)
    out,              \* the elements the last script run put on the page
    raised,           \* whether an exception left run()
    pc                \* what the last step was

vars == <<url, selected_option, content, images, status, failed, new_content,
          words, counts, top_words, top_counts, top_20_counts, num, top_n,
          out, raised, pc>>

----------------------------------------------------------------------------
(* Bounds of the model. *)

\* longest text given to the normalizer alone
MaxNormLen == 3

\* longest text of a page the app is run against
MaxText == 3

\* most <img> tags of a page the app is run against
MaxImgs == 2

\* most tokens of a token sequence given to the counting loop alone
MaxTokens == 4

\* most words of a frequency table whose counts are all free
MaxWords == 3

\* largest count of a word in a frequency table given to the top-N code
MaxCount == 3

\* a wide table has at most TopNum + MaxOver words
MaxOver == 2

\* most words of a wide table that occur more than once
MaxHeavy == 1

\* get_top_counts alone is called with num from -MaxNeg to MaxNum
MaxNeg == 2

MaxNum == 4

----------------------------------------------------------------------------
(* Generic helpers. *)

Min(a, b) == IF a <= b THEN a ELSE b

Max(a, b) == IF a >= b THEN a ELSE b

Abs(a) == IF a >= 0 THEN a ELSE -a

\* all sequences over S of length at most n
SeqsUpTo(S, n) == UNION {[1..k -> S] : k \in 0..n}

RECURSIVE SumSeq(_)
\* Python's sum() of a list of integers
SumSeq(s) == IF s = <<>> THEN 0 ELSE Head(s) + SumSeq(Tail(s))

----------------------------------------------------------------------------
(* The normalizer: re.sub(r'[^a-zA-Z0-9\u4e00-\u9fa5]', '', content).       *)

\* a character the pattern [^a-zA-Z0-9\u4e00-\u9fa5] does not match
Allowed(c) ==
    \/ c >= 97 /\ c <= 122         \* a-z
    \/ c >= 65 /\ c <= 90          \* A-Z
    \/ c >= 48 /\ c <= 57          \* 0-9
    \/ c >= 19968 /\ c <= 40869    \* U+4E00 - U+9FA5

\* what re.sub(pattern, '', content, count=1) would give: only the first
\* match is deleted
re_sub_once(text) ==
    IF \E i \in DOMAIN text : ~Allowed(text[i])
    THEN LET i == CHOOSE i \in DOMAIN text :
                      /\ ~Allowed(text[i])
                      /\ \A j \in 1..(i - 1) : Allowed(text[j])
         IN  SubSeq(text, 1, i - 1) \o SubSeq(text, i + 1, Len(text))
    ELSE text

\* re.sub(pattern, '', content): every match is deleted, nothing inserted
re_sub(text) == SelectSeq(text, Allowed)

\* the code points texts are built from when the normalizer is checked
\* alone: both ends of every allowed range, their outer neighbours, a space
NormChars ==
    {32, 47, 48, 57, 58, 64, 65, 90, 91, 96, 97, 122, 123,
     19967, 19968, 40869, 40870}

----------------------------------------------------------------------------
(* Python dicts and lists. *)

\* whether key k is in dict d
DictHas(d, k) == \E i \in DOMAIN d : d[i][1] = k

\* d.get(k, default)
DictGet(d, k, default) ==
    IF DictHas(d, k)
    THEN d[CHOOSE i \in DOMAIN d : d[i][1] = k][2]
    ELSE default

\* d[k] = v: a new key goes last, a known key keeps its place
DictSet(d, k, v) ==
    IF DictHas(d, k)
    THEN [i \in DOMAIN d |-> IF d[i][1] = k THEN <<k, v>> ELSE d[i]]
    ELSE Append(d, <<k, v>>)

RECURSIVE DictFrom(_, _)
\* inserts the pairs, in order, into dict d
DictFrom(d, pairs) ==
    IF pairs = <<>> THEN d
    ELSE DictFrom(DictSet(d, Head(pairs)[1], Head(pairs)[2]), Tail(pairs))

\* dict(pairs)
dict(pairs) == DictFrom(<<>>, pairs)

\* list(d.keys()) and list(d.values())
Keys(d) == [i \in DOMAIN d |-> d[i][1]]

Values(d) == [i \in DOMAIN d |-> d[i][2]]

\* s[:n], Python's slice: a negative n counts from the end
SliceTo(s, n) ==
    IF n >= 0
    THEN SubSeq(s, 1, Min(n, Len(s)))
    ELSE SubSeq(s, 1, Max(Len(s) + n, 0))

\* the place of pair x in a list already sorted by count, descending:
\* after every pair whose count is at least x's
InsertByCount(sorted, x) ==
    LET k == Cardinality({i \in DOMAIN sorted : sorted[i][2] >= x[2]})
    IN  SubSeq(sorted, 1, k) \o <<x>> \o SubSeq(sorted, k + 1, Len(sorted))

RECURSIVE SortInto(_, _)
SortInto(sorted, items) ==
    IF items = <<>> THEN sorted
    ELSE SortInto(InsertByCount(sorted, Head(items)), Tail(items))

\* a sort by count, ascending (reverse=True forgotten)
SortedAscending(items) ==
    LET RECURSIVE Asc(_, _)
        Asc(sorted, rest) ==
            IF rest = <<>> THEN sorted
            ELSE LET x == Head(rest)
                     k == Cardinality({i \in DOMAIN sorted :
                                           sorted[i][2] <= x[2]})
                 IN  Asc(SubSeq(sorted, 1, k) \o <<x>>
                             \o SubSeq(sorted, k + 1, Len(sorted)),
                         Tail(rest))
    IN  Asc(<<>>, items)

\* Python's sort with key=lambda x: x[1], reverse=True: by count,
\* descending; it is stable, also under reverse=True, so equal counts keep
\* their order
StableByCount(items) == SortInto(<<>>, items)

\* items.sort(key=lambda x: x[1], reverse=True) in get_web_content
items_sort(items) == StableByCount(items)

\* sorted(counts.items(), key=lambda x: x[1], reverse=True) in
\* get_top_counts
SortedByCount(items) == StableByCount(items)

----------------------------------------------------------------------------
(* get_web_content and get_top_counts. *)

\* the 20 of min(20, len(items)) in get_web_content
TopListLen == 20

\* the num=20 that run and display_web_content pass to get_top_counts
TopNum == 20

RECURSIVE Segmentations(_)
\* what jieba.lcut(text) may return: the text cut into non-empty pieces,
\* in order; where it cuts is the segmenter's business
Segmentations(text) ==
    IF text = <<>> THEN {<<>>}
    ELSE UNION {{<<SubSeq(text, 1, k)>> \o rest :
                    rest \in Segmentations(SubSeq(text, k + 1, Len(text)))} :
                k \in 1..Len(text)}

\* the counting loop with the length test left out
CountAll(table, word) == DictSet(table, word, DictGet(table, word, 0) + 1)

\* the body of "for word in words": a word of one character is skipped,
\* any other word is counted
CountWord(table, word) ==
    IF Len(word) = 1
    THEN table
    ELSE DictSet(table, word, DictGet(table, word, 0) + 1)

RECURSIVE CountInto(_, _)
CountInto(table, ws) ==
    IF ws = <<>> THEN table
    ELSE CountInto(CountWord(table, Head(ws)), Tail(ws))

\* counts = {} and the loop over words
CountWords(ws) == CountInto(<<>>, ws)

\* items = list(counts.items()); items.sort(key=..., reverse=True), cut one
\* entry short of TopListLen
TopItemsShort(table) ==
    LET items == items_sort(table)
    IN  [i \in 1..Min(TopListLen - 1, Len(items)) |-> items[i]]

\* items = list(counts.items()); items.sort(key=..., reverse=True);
\* [items[i] for i in range(min(20, len(items)))]
TopItems(table) ==
    LET items == items_sort(table)
    IN  [i \in 1..Min(TopListLen, Len(items)) |-> items[i]]

\* top_words and top_counts of get_web_content
TopWords(table) == Keys(TopItems(table))

TopCounts(table) == Values(TopItems(table))

\* get_top_counts with the sort ascending
get_top_counts_ascending(table, n) ==
    dict(SliceTo(SortedAscending(table), n))

\* get_top_counts(counts, num)
get_top_counts(table, n) == dict(SliceTo(SortedByCount(table), n))

----------------------------------------------------------------------------
(* What a script run puts on the page. *)

\* st.title at the top of run
Title == [kind |-> "title"]

\* st.write(f"发生错误：{e}")
ErrorMessage == [kind |-> "write", text |-> "error"]

\* st.write("请选择一个功能")
GuidanceMessage == [kind |-> "write", text |-> "guidance"]

\* st.write("页面中的图片：")
GalleryHeader == [kind |-> "write", text |-> "header"]

\* st.write("页面中没有图片。")
NoImagesMessage == [kind |-> "write", text |-> "noimages"]

\* st.image(image, caption=img_url): i stands for the i-th tag's src
Image(i) == [kind |-> "image", src |-> i]

\* st.warning(f"无法下载或显示图片: {img_url}, ...")
Warning(i) == [kind |-> "warning", src |-> i]

\* st_echarts(options): the chart type, the axis or legend labels and the
\* series data of the options
Chart(type, labels, data) ==
    [kind |-> "chart", type |-> type, labels |-> labels, data |-> data]

----------------------------------------------------------------------------
(* The chart adapters. *)

display_bar_chart(ws, cs) == Chart("bar", ws, cs)

display_word_cloud(top) == Chart("wordCloud", <<>>, top)

display_pie_chart(top) == Chart("pie", <<>>, top)

display_line_chart(ws, cs) == Chart("line", ws, cs)

display_scatter_chart(top, ws, cs) == Chart("scatter", ws, top)

display_area_chart(ws, cs) == Chart("area", ws, cs)

\* count / total * 100 cut, not rounded, to 2 decimals, in hundredths
TruncatePercent(count, total) == (10000 * count) \div total

\* round(count / total * 100, 2), in hundredths of a percent. Python rounds
\* to the nearest hundredth and an exact half to the even one. An exact
\* half needs a total that is a multiple of 32; the tables here have none
RoundPercent(count, total) ==
    LET q == (10000 * count) \div total
        r == (10000 * count) % total
    IN  IF 2 * r < total THEN q
        ELSE IF 2 * r > total THEN q + 1
        ELSE IF q % 2 = 0 THEN q ELSE q + 1

\* total_count = sum(counts); every entry of top_counts.items() becomes
\* its share of total_count in percent; the legend is words
display_customized_chart(top, ws, cs) ==
    LET total_count == SumSeq(cs)
    IN  Chart("funnel", ws,
              [i \in DOMAIN top |->
                  <<top[i][1], RoundPercent(top[i][2], total_count)>>])

RECURSIVE ImageLoop(_, _)
\* "for img in images" from the i-th tag on: img['src'] raises KeyError on
\* a tag without src, outside the try, and ends the loop; a tag whose
\* download or display raises gives a warning, and the loop goes on
ImageLoop(imgs, i) ==
    IF i > Len(imgs) THEN [items |-> <<>>, keyError |-> FALSE]
    ELSE IF imgs[i] = "nosrc" THEN [items |-> <<>>, keyError |-> TRUE]
    ELSE LET rest == ImageLoop(imgs, i + 1)
             item == IF imgs[i] = "ok" THEN Image(i) ELSE Warning(i)
         IN  [items |-> <<item>> \o rest.items, keyError |-> rest.keyError]

\* display_images with the test len(images) >= 0: the header and the loop
\* also for a page without images
display_images_always(imgs) ==
    LET loop == ImageLoop(imgs, 1)
    IN  [items |-> <<GalleryHeader>> \o loop.items,
         keyError |-> loop.keyError]

\* display_images(soup): what it writes, and whether a KeyError left it
display_images(imgs) ==
    IF Len(imgs) > 0
    THEN LET loop == ImageLoop(imgs, 1)
         IN  [items |-> <<GalleryHeader>> \o loop.items,
              keyError |-> loop.keyError]
    ELSE [items |-> <<NoImagesMessage>>, keyError |-> FALSE]

----------------------------------------------------------------------------
(* The app: run(), which Streamlit executes from the top on every widget   *)
(* interaction; st.button is True only in the run its click starts.        *)
(* display_web_content, which wraps a whole cycle in try/except, is called *)
(* from nowhere and is not part of the app.                                *)

\* the options of the selectbox, in order: bar chart, word cloud, pie
\* chart, line chart, scatter chart, funnel chart, area chart, images
Options ==
    <<"bar", "wordCloud", "pie", "line", "scatter", "funnel", "area",
      "images">>

OptionSet == {Options[i] : i \in DOMAIN Options}

\* st.selectbox gives None when nothing is selected
None == "None"

\* the URLs typed in: none, or one
Urls == {"", "u"}

\* the code points of the pages the app is run against: a letter, a space
RunChars == {97, 32}

\* an <img> tag: its image downloads and displays; its download or display
\* raises; it has no src attribute
ImgTags == {"ok", "broken", "nosrc"}

\* the collaborator calls of one cycle that may raise: requests.get,
\* BeautifulSoup and jieba.lcut in get_web_content, st_echarts in a chart
\* adapter, requests.get and BeautifulSoup of the image mode
Faults == {"none", "fetch", "parse", "lcut", "render", "imgfetch", "imgparse"}

\* the status of a response requests.get returns; it raises on neither
Statuses == {200, 404}

\* a value not computed in the last step
Unset == "unset"

\* the pipeline's variables when the last step did not compute them
NoPipeline ==
    /\ status' = Unset
    /\ new_content' = Unset
    /\ words' = Unset
    /\ counts' = Unset
    /\ top_words' = Unset
    /\ top_counts' = Unset
    /\ top_20_counts' = Unset

\* the chart adapter run calls for a chart option
ChartFor(option, table, ws, cs, top) ==
    CASE option = "bar" -> display_bar_chart(ws, cs)
      [] option = "wordCloud" -> display_word_cloud(top)
      [] option = "pie" -> display_pie_chart(top)
      [] option = "line" -> display_line_chart(ws, cs)
      [] option = "scatter" -> display_scatter_chart(top, ws, cs)
      [] option = "funnel" -> display_customized_chart(top, ws, cs)
      [] option = "area" -> display_area_chart(ws, cs)

\* the branch of run under "if selected_option": what it writes, which
\* call raised, and whether the exception left run. Only the image mode
\* has a try; a chart adapter's exception leaves run
Render(option, fault, table, ws, cs, top) ==
    IF option = None
    THEN [items |-> <<GuidanceMessage>>, failed |-> "none", raised |-> FALSE]
    ELSE IF option = "images"
    THEN IF fault \in {"imgfetch", "imgparse"}
         THEN [items |-> <<ErrorMessage>>, failed |-> fault, raised |-> FALSE]
         ELSE LET shown == display_images(images)
              IN  [items |-> shown.items \o
                       (IF shown.keyError THEN <<ErrorMessage>> ELSE <<>>),
                   failed |-> IF shown.keyError THEN "src" ELSE "none",
                   raised |-> FALSE]
    ELSE IF fault = "render"
         THEN [items |-> <<>>, failed |-> "render", raised |-> TRUE]
         ELSE [items |-> <<ChartFor(option, table, ws, cs, top)>>,
               failed |-> "none", raised |-> FALSE]

\* one run of the script with the button clicked: fault is the collaborator
\* call that raises if the run gets to it, st the status of the page's
\* response, seg what jieba.lcut returns
Cycle(fault, st, seg) ==
    /\ pc' = "cycle"
    /\ UNCHANGED <<url, selected_option, content, images, num, top_n>>
    /\ IF url = ""
       THEN /\ NoPipeline
            /\ out' = <<Title>>
            /\ failed' = "none"
            /\ raised' = FALSE
       ELSE IF fault = "fetch"
       THEN /\ NoPipeline
            /\ out' = <<Title>>
            /\ failed' = "fetch"
            /\ raised' = TRUE
       ELSE IF fault \in {"parse", "lcut"}
       THEN /\ status' = st
            /\ new_content' = IF fault = "lcut" THEN re_sub(content) ELSE Unset
            /\ words' = Unset
            /\ counts' = Unset
            /\ top_words' = Unset
            /\ top_counts' = Unset
            /\ top_20_counts' = Unset
            /\ out' = <<Title>>
            /\ failed' = fault
            /\ raised' = TRUE
       ELSE LET table == CountWords(seg)
                ws == TopWords(table)
                cs == TopCounts(table)
                top == get_top_counts(table, TopNum)
                shown == Render(selected_option, fault, table, ws, cs, top)
            IN  /\ status' = st
                /\ new_content' = re_sub(content)
                /\ words' = seg
                /\ counts' = table
                /\ top_words' = ws
                /\ top_counts' = cs
                /\ top_20_counts' = top
                /\ out' = <<Title>> \o shown.items
                /\ failed' = shown.failed
                /\ raised' = shown.raised

\* the button is clicked
ClickButton ==
    \E fault \in Faults, st \in Statuses :
        \E seg \in Segmentations(re_sub(content)) : Cycle(fault, st, seg)

\* a run of the script with the button not clicked: the title and the
\* widgets only
Rerun ==
    /\ pc' = "rerun"
    /\ NoPipeline
    /\ out' = <<Title>>
    /\ failed' = "none"
    /\ raised' = FALSE
    /\ UNCHANGED <<content, images, num, top_n>>

\* the user types a URL, or clears it
EnterUrl ==
    \E u \in Urls \ {url} :
        /\ url' = u
        /\ selected_option' = selected_option
        /\ Rerun

\* the user picks another option, or the selectbox comes back empty
SelectOption ==
    \E o \in (OptionSet \cup {None}) \ {selected_option} :
        /\ selected_option' = o
        /\ url' = url
        /\ Rerun

\* the app as first loaded, against some page of the web
Init ==
    /\ url = ""
    /\ selected_option = Options[1]
    /\ content \in SeqsUpTo(RunChars, MaxText)
    /\ images \in SeqsUpTo(ImgTags, MaxImgs)
    /\ status = Unset
    /\ failed = "none"
    /\ new_content = Unset
    /\ words = Unset
    /\ counts = Unset
    /\ top_words = Unset
    /\ top_counts = Unset
    /\ top_20_counts = Unset
    /\ num = Unset
    /\ top_n = Unset
    /\ out = <<Title>>
    /\ raised = FALSE
    /\ pc = "rerun"

Next == EnterUrl \/ SelectOption \/ ClickButton

Spec == Init /\ [][Next]_vars

----------------------------------------------------------------------------
(* The claims about the cycle, under Spec. *)

\* what the cycle wrote under the title
CycleOutput == Tail(out)

\* how many elements of the page are the error message
ErrorCount == Cardinality({i \in DOMAIN out : out[i] = ErrorMessage})

\* no chart is on the page
NoChart == \A i \in DOMAIN out : out[i].kind # "chart"

\* the last run was a cycle with a URL
Triggered == pc = "cycle" /\ url # ""

\* the last cycle's get_web_content returned
Fetched == Triggered /\ failed \notin {"fetch", "parse", "lcut"}

\* the last cycle called display_images
DisplayImagesRan ==
    /\ Fetched
    /\ selected_option = "images"
    /\ failed \notin {"imgfetch", "imgparse"}

\* C1: in a triggered cycle with a URL and one of the 8 modes, a raising
\* collaborator call (page fetch, HTML parse, segmentation, chart render,
\* image page fetch) is caught inside run(): exactly one error message is
\* displayed, no chart is rendered, no exception leaves run().
C1_SingleFailureBoundary ==
    (/\ Triggered
     /\ selected_option \in OptionSet
     /\ failed \in {"fetch", "parse", "lcut", "render",
                    "imgfetch", "imgparse"})
    => (/\ ~raised
        /\ ErrorCount = 1
        /\ NoChart)

\* C2: a page fetch answered with a non-success status counts as a
\* failure: the cycle displays a single error message and renders no
\* chart.
C2_NonSuccessStatusFails ==
    (/\ Triggered
     /\ selected_option \in OptionSet
     /\ failed # "fetch"
     /\ status = 404)
    => (/\ ErrorCount = 1
        /\ NoChart)

\* C3: for a page with k >= 1 image tags display_images handles every tag
\* in document order and emits exactly one item per tag, the image or a
\* warning, whatever is wrong with an earlier tag, a missing src included.
C3_OneItemPerTag ==
    (DisplayImagesRan /\ Len(images) >= 1)
    => CycleOutput =
           <<GalleryHeader>> \o
           [i \in 1..Len(images) |->
               IF images[i] = "ok" THEN Image(i) ELSE Warning(i)]

C8_NoImagesMessageOnly ==
    (DisplayImagesRan /\ Len(images) = 0)
    => CycleOutput = <<NoImagesMessage>>

\* C8's case: display_images ran on a page without image tags
C8_Witness ==
    /\ DisplayImagesRan
    /\ images = <<>>
    /\ out = <<Title, NoImagesMessage>>

----------------------------------------------------------------------------
(* The pure parts, each applied to inputs drawn from a bounded set.  The   *)
(* variables a part does not use stay as the app holds them at load.       *)

AtLoad ==
    /\ url = ""
    /\ selected_option = Options[1]
    /\ images = <<>>
    /\ status = Unset
    /\ failed = "none"
    /\ raised = FALSE
    /\ out = <<Title>>

(* The normalizer alone. *)

InitNormalize ==
    /\ AtLoad
    /\ content \in SeqsUpTo(NormChars, MaxNormLen)
    /\ new_content = Unset
    /\ words = Unset
    /\ counts = Unset
    /\ top_words = Unset
    /\ top_counts = Unset
    /\ top_20_counts = Unset
    /\ num = Unset
    /\ top_n = Unset
    /\ pc = "input"

\* new_content = re.sub(pattern, '', content)
Normalize ==
    /\ pc = "input"
    /\ new_content' = re_sub(content)
    /\ pc' = "normalized"
    /\ UNCHANGED <<url, selected_option, content, images, status, failed,
                   words, counts, top_words, top_counts, top_20_counts,
                   num, top_n, out, raised>>

SpecNormalize == InitNormalize /\ [][Normalize]_vars

(* The counting loop alone. *)

\* the words jieba returns here: "a", "ab", "ba", and the CJK words of one
\* and of two ideographs U+754C and U+4E16 U+754C; jieba returns no empty
\* word
Vocabulary == {<<97>>, <<97, 98>>, <<98, 97>>, <<30028>>, <<19990, 30028>>}

InitCount ==
    /\ AtLoad
    /\ content = Unset
    /\ new_content = Unset
    /\ words \in SeqsUpTo(Vocabulary, MaxTokens)
    /\ counts = Unset
    /\ top_words = Unset
    /\ top_counts = Unset
    /\ top_20_counts = Unset
    /\ num = Unset
    /\ top_n = Unset
    /\ pc = "input"

\* counts = {} and the loop "for word in words"
Count ==
    /\ pc = "input"
    /\ counts' = CountWords(words)
    /\ pc' = "counted"
    /\ UNCHANGED <<url, selected_option, content, images, status, failed,
                   new_content, words, top_words, top_counts, top_20_counts,
                   num, top_n, out, raised>>

SpecCount == InitCount /\ [][Count]_vars

(* The top-N code, on frequency tables as the counting loop builds them:   *)
(* distinct words of two characters, positive counts.                      *)

\* the i-th word inserted into a table; the words' alphabetical order is
\* not their insertion order
Word(i) == <<97 + ((7 * i) % 26), 97 + (i % 26)>>

\* the table whose i-th inserted word has count cs[i]
TableOf(cs) == [i \in DOMAIN cs |-> <<Word(i), cs[i]>>]

\* every table of at most MaxWords words with counts up to MaxCount
SmallTables == {TableOf(cs) : cs \in SeqsUpTo(1..MaxCount, MaxWords)}

\* the tables of at most TopNum + MaxOver words of which at most MaxHeavy
\* occur more than once
WideTables ==
    UNION {{TableOf([i \in 1..n |-> IF i \in DOMAIN heavy THEN heavy[i] ELSE 1])
               : heavy \in
                   UNION {[H -> 2..MaxCount] :
                             H \in {H \in SUBSET (1..n) :
                                       Cardinality(H) <= MaxHeavy}}}
           : n \in 0..(TopNum + MaxOver)}

Tables == SmallTables \cup WideTables

\* get_top_counts alone, with any num

InitTopN ==
    /\ AtLoad
    /\ content = Unset
    /\ new_content = Unset
    /\ words = Unset
    /\ counts \in SmallTables
    /\ top_words = Unset
    /\ top_counts = Unset
    /\ top_20_counts = Unset
    /\ num \in (-MaxNeg)..MaxNum
    /\ top_n = Unset
    /\ pc = "input"

\* top_n = get_top_counts(counts, num)
GetTopCounts ==
    /\ pc = "input"
    /\ top_n' = get_top_counts(counts, num)
    /\ pc' = "topn"
    /\ UNCHANGED <<url, selected_option, content, images, status, failed,
                   new_content, words, counts, top_words, top_counts,
                   top_20_counts, num, out, raised>>

SpecTopN == InitTopN /\ [][GetTopCounts]_vars

\* the two top-20 views and the funnel chart made of them

InitTop ==
    /\ AtLoad
    /\ content = Unset
    /\ new_content = Unset
    /\ words = Unset
    /\ counts \in Tables
    /\ top_words = Unset
    /\ top_counts = Unset
    /\ top_20_counts = Unset
    /\ num = Unset
    /\ top_n = Unset
    /\ pc = "input"

\* the end of get_web_content, from items = list(counts.items()) on, and
\* top_20_counts = get_top_counts(counts, num=20) in run
TopTwenty ==
    /\ pc = "input"
    /\ top_words' = TopWords(counts)
    /\ top_counts' = TopCounts(counts)
    /\ top_20_counts' = get_top_counts(counts, TopNum)
    /\ pc' = "top"
    /\ UNCHANGED <<url, selected_option, content, images, status, failed,
                   new_content, words, counts, num, top_n, out, raised>>

\* display_customized_chart(top_20_counts, top_words, top_counts) in run
Funnel ==
    /\ pc = "top"
    /\ out' = <<Title,
                display_customized_chart(top_20_counts, top_words,
                                         top_counts)>>
    /\ pc' = "funnel"
    /\ UNCHANGED <<url, selected_option, content, images, status, failed,
                   new_content, words, counts, top_words, top_counts,
                   top_20_counts, num, top_n, raised>>

NextTop == TopTwenty \/ Funnel

SpecTop == InitTop /\ [][NextTop]_vars

----------------------------------------------------------------------------
(* The claims about the pure parts. *)

\* where word w was inserted into table
PlaceIn(table, w) == CHOOSE i \in DOMAIN table : table[i][1] = w

\* the entries of top are entries of table, by count descending, equal
\* counts in the order of their insertion into table
OrderedTopOf(top, table) ==
    /\ \A i \in DOMAIN top : \E j \in DOMAIN table : table[j] = top[i]
    /\ \A i, j \in DOMAIN top :
           i < j =>
               \/ top[i][2] > top[j][2]
               \/ /\ top[i][2] = top[j][2]
                  /\ PlaceIn(table, top[i][1]) < PlaceIn(table, top[j][1])

Occurrences(ws, w) == Cardinality({j \in DOMAIN ws : ws[j] = w})

\* C5: the table the counting loop builds has as keys exactly the distinct
\* tokens of length >= 2, each with its number of occurrences; no token of
\* length 1 is a key; the values sum to the number of tokens of length >= 2.
C5_CountsQualifyingTokens ==
    pc = "counted" =>
        /\ {counts[i][1] : i \in DOMAIN counts}
               = {words[j] : j \in {j \in DOMAIN words : Len(words[j]) >= 2}}
        /\ \A i, j \in DOMAIN counts : counts[i][1] = counts[j][1] => i = j
        /\ \A i \in DOMAIN counts :
               counts[i][2] = Occurrences(words, counts[i][1])
        /\ \A i \in DOMAIN counts : Len(counts[i][1]) # 1
        /\ SumSeq(Values(counts))
               = Cardinality({j \in DOMAIN words : Len(words[j]) >= 2})

\* C5's case: a sequence with a token of length 1, a repeated token and
\* two distinct tokens of length >= 2
C5_Witness ==
    /\ pc = "counted"
    /\ \E j \in DOMAIN words : Len(words[j]) = 1
    /\ Len(counts) >= 2
    /\ \E i \in DOMAIN counts : counts[i][2] >= 2

\* the funnel chart on the page, its values in hundredths of a percent
FunnelData == out[2].data

FunnelValues == [i \in DOMAIN FunnelData |-> FunnelData[i][2]]

\* every displayed value is its entry's count / sum(top_counts) * 100
\* within half a hundredth
FunnelValuesRounded ==
    /\ DOMAIN FunnelData = DOMAIN top_20_counts
    /\ \A i \in DOMAIN FunnelData :
           /\ FunnelData[i][1] = top_20_counts[i][1]
           /\ 2 * Abs(FunnelData[i][2] * SumSeq(top_counts)
                          - 10000 * top_20_counts[i][2])
                  <= SumSeq(top_counts)

\* C6 as stated: each displayed value is count / (sum of the full top-20
\* count list) * 100 rounded to 2 decimals, so the displayed percentages
\* sum to 100 * (sum of the displayed subset) / (sum of the full top-20
\* list).
C6_FunnelSumExact ==
    pc = "funnel" =>
        /\ FunnelValuesRounded
        /\ SumSeq(FunnelValues) * SumSeq(top_counts)
               = 10000 * SumSeq(Values(top_20_counts))

\* C6 with the rounding counted: each displayed value is count / (sum of
\* the full top-20 count list) * 100 rounded to 2 decimals, so the
\* displayed percentages sum to 100 * (sum of the displayed subset) / (sum
\* of the full top-20 list) up to 0.005 for each displayed entry.
C6_FunnelSumUpToRounding ==
    pc = "funnel" =>
        /\ FunnelValuesRounded
        /\ 2 * Abs(SumSeq(FunnelValues) * SumSeq(top_counts)
                       - 10000 * SumSeq(Values(top_20_counts)))
               <= Len(FunnelData) * SumSeq(top_counts)

\* C6's case: a funnel chart whose displayed percentages do not sum to 100
C6_Witness ==
    /\ pc = "funnel"
    /\ Len(FunnelData) >= 3
    /\ SumSeq(FunnelValues) # 10000

\* C9: the normalizer is idempotent: normalizing the normalized text
\* changes nothing.
C9_NormalizeIdempotent ==
    pc = "normalized" => re_sub(new_content) = new_content

\* C9's case: a text of which the normalizer deleted two characters and
\* kept one
C9_Witness ==
    /\ pc = "normalized"
    /\ Len(content) = Len(new_content) + 2
    /\ new_content # <<>>

\* C10: the (top_words, top_counts) lists of get_web_content are as long
\* as the mapping get_top_counts(counts, 20), and their i-th word and
\* count are its i-th key and value in iteration order.
C10_TopViewsAgree ==
    pc = "top" =>
        /\ Len(top_words) = Len(top_20_counts)
        /\ Len(top_counts) = Len(top_20_counts)
        /\ \A i \in DOMAIN top_20_counts :
               /\ top_words[i] = top_20_counts[i][1]
               /\ top_counts[i] = top_20_counts[i][2]

\* C10's case: a table of more than 20 words, cut to 20, whose order the
\* sort changed
C10_Witness ==
    /\ pc = "top"
    /\ Len(counts) > TopNum
    /\ Len(top_20_counts) = TopNum
    /\ Len(top_words) = TopNum
    /\ top_20_counts # SubSeq(counts, 1, TopNum)

====
